---------------------------- MODULE Spec2Model ----------------------------
(***************************************************************************)
(* Customer CRUD service: the lock-guarded in-memory store (db.rs), the    *)
(* five request handlers (handlers.rs) and the startup path (main.rs).     *)
(*                                                                         *)
(* Strings are represented by small naturals: guid i stands for the i-th   *)
(* distinct guid string, value v for the v-th distinct field string.       *)
(***************************************************************************)
EXTENDS Naturals, Sequences, FiniteSets

(* ------------------------------ bounds --------------------------------- *)
NumGuids == 2
NumVals == 2
MaxSeed == 2
NumTasks == 2

Guids == 1..NumGuids
Vals == 1..NumVals
Tasks == 1..NumTasks

None == 0

(* ------------------------------ models.rs ------------------------------ *)
\* struct Customer: five string fields.  Variant v of a customer differs from
\* every other variant in each of the four fields besides the guid, and no two
\* fields of a customer hold the same string.
Customer(g, v) ==
    [guid |-> g, first_name |-> v, last_name |-> NumVals + v,
     email |-> 2 * NumVals + v, address |-> 3 * NumVals + v]

\* The customer values requests and snapshot files carry.
Payloads == {Customer(g, v) : g \in Guids, v \in Vals}

\* The fields of Customer in declaration order, as serde (de)serialises them.
CustomerFields == <<"guid", "first_name", "last_name", "email", "address">>

FieldSet == {CustomerFields[i] : i \in 1..Len(CustomerFields)}

\* #[derive(Serialize)]: a customer as a JSON object, a function from key to value.
ToJson(c) ==
    [k \in FieldSet |->
        CASE k = "guid" -> c.guid
          [] k = "first_name" -> c.first_name
          [] k = "last_name" -> c.last_name
          [] k = "email" -> c.email
          [] k = "address" -> c.address]

\* #[derive(Deserialize)]: a JSON object holding every field is a customer.
JsonIsCustomer(o) == FieldSet \subseteq DOMAIN o

FromJson(o) ==
    [guid |-> o["guid"], first_name |-> o["first_name"], last_name |-> o["last_name"],
     email |-> o["email"], address |-> o["address"]]

\* Vec<Customer> as a JSON array.
SeqToJson(s) == [i \in 1..Len(s) |-> ToJson(s[i])]

(* -------------------------- the snapshot file -------------------------- *)
\* A JSON object that lacks the address key: not a customer.
BadObject == [k \in (FieldSet \ {"address"}) |-> 1]

JsonObjects == {ToJson(c) : c \in Payloads} \cup {BadObject}

RECURSIVE SeqsUpTo(_, _)
SeqsUpTo(S, n) ==
    IF n = 0 THEN {<<>>}
    ELSE LET shorter == SeqsUpTo(S, n - 1)
         IN shorter \cup {Append(s, x) : s \in {q \in shorter : Len(q) = n - 1}, x \in S}

\* What File::open("./data/customers.json") can meet: no file, a file that
\* cannot be opened, a file that is not a JSON array, or a JSON array of objects.
SnapshotFiles ==
    {[kind |-> "absent", content |-> <<>>],
     [kind |-> "unopenable", content |-> <<>>],
     [kind |-> "garbage", content |-> <<>>]}
    \cup {[kind |-> "array", content |-> s] : s \in SeqsUpTo(JsonObjects, MaxSeed)}

\* File::open succeeds.
FileOpens(f) == f.kind \in {"garbage", "array"}

\* serde_json::from_reader::<Vec<Customer>> succeeds.
Parseable(f) ==
    /\ f.kind = "array"
    /\ \A i \in 1..Len(f.content) : JsonIsCustomer(f.content[i])

ParsedCustomers(f) == [i \in 1..Len(f.content) |-> FromJson(f.content[i])]

(* ----------------------------- variables ------------------------------ *)
VARIABLES
    mainPc,   \* main(): "start", "serving" or "panicked"
    file,     \* ./data/customers.json as found at startup; never written
    db,       \* the Vec<Customer> inside the Mutex
    holder,   \* the task owning the MutexGuard, or None
    pc,       \* per request task: "idle", "lock", "body", "push", "retain", "done"
    req,      \* per request task: the operation and its argument
    reply,    \* per request task: the reply the handler returned
    count,    \* per request task: delete_customer's customer_count
    last      \* the task whose handler returned most recently, or None

vars == <<mainPc, file, db, holder, pc, req, reply, count, last>>

NoReq == [op |-> "none", arg |-> None]
NoReply == [status |-> None, json |-> <<>>]

(* ----------------------------- status codes ---------------------------- *)
OK == 200
CREATED == 201
NO_CONTENT == 204
BAD_REQUEST == 400
NOT_FOUND == 404

\* A reply that is a bare StatusCode has an empty body.
StatusReply(code) == [status |-> code, json |-> <<>>]

\* warp::reply::json(&value): status 200 and the serialised value as body.
JsonReply(value) == [status |-> OK, json |-> <<value>>]

(* ------------------------------ handlers.rs ---------------------------- *)
\* Faulty scans: one that never finds a match, one that takes the first record
\* of a vector holding a match, and one that matches any record.
FirstMatchNever(s, g) == None

FirstMatchHead(s, g) ==
    IF \E i \in 1..Len(s) : s[i].guid = g THEN 1 ELSE None

FirstMatchAny(s, g) ==
    IF s # <<>> THEN 1 ELSE None

\* Index of the first record whose guid is g, or None: the for loops' scan.
FirstMatch(s, g) ==
    IF \E i \in 1..Len(s) : s[i].guid = g
    THEN CHOOSE i \in 1..Len(s) :
            /\ s[i].guid = g
            /\ \A j \in 1..(i - 1) : s[j].guid # g
    ELSE None

\* Faulty retains: one that removes only the first match, one whose predicate
\* is inverted.
RECURSIVE RetainFirstOnly(_, _)
RetainFirstOnly(s, g) ==
    IF s = <<>> THEN <<>>
    ELSE IF Head(s).guid # g THEN <<Head(s)>> \o RetainFirstOnly(Tail(s), g)
         ELSE Tail(s)

RECURSIVE RetainInverted(_, _)
RetainInverted(s, g) ==
    IF s = <<>> THEN <<>>
    ELSE IF Head(s).guid = g THEN <<Head(s)>> \o RetainInverted(Tail(s), g)
         ELSE RetainInverted(Tail(s), g)

\* Vec::retain(|customer| customer.guid != guid)
RECURSIVE Retain(_, _)
Retain(s, g) ==
    IF s = <<>> THEN <<>>
    ELSE IF Head(s).guid # g THEN <<Head(s)>> \o Retain(Tail(s), g)
         ELSE Retain(Tail(s), g)

(* -------------------------------- routes ------------------------------- *)
\* The requests the five routes hand to the handlers.
Requests ==
    {[op |-> "list", arg |-> None]}
    \cup {[op |-> "create", arg |-> c] : c \in Payloads}
    \cup {[op |-> "get", arg |-> g] : g \in Guids}
    \cup {[op |-> "update", arg |-> c] : c \in Payloads}
    \cup {[op |-> "delete", arg |-> g] : g \in Guids}

(* ------------------------------- startup ------------------------------- *)
Init ==
    /\ mainPc = "start"
    /\ file \in SnapshotFiles
    /\ db = <<>>
    /\ holder = None
    /\ pc = [t \in Tasks |-> "idle"]
    /\ req = [t \in Tasks |-> NoReq]
    /\ reply = [t \in Tasks |-> NoReply]
    /\ count = [t \in Tasks |-> None]
    /\ last = None

\* init_db(): what the store holds after a successful start.
init_db(f) ==
    IF FileOpens(f) THEN ParsedCustomers(f) ELSE <<>>

\* from_reader(json).unwrap() panics.
InitPanics(f) == FileOpens(f) /\ ~Parseable(f)

\* main(): init_db, then serve; a panic in init_db ends the process.
InitDb ==
    /\ mainPc = "start"
    /\ IF InitPanics(file)
       THEN /\ mainPc' = "panicked"
            /\ db' = db
       ELSE /\ mainPc' = "serving"
            /\ db' = init_db(file)
    /\ UNCHANGED <<file, holder, pc, req, reply, count, last>>

(* ------------------------------ the mutex ------------------------------ *)
\* A faulty mutex that grants the lock while a guard is alive.
CanLockAlways == TRUE

\* Mutex::lock() completes only while no guard is alive.
CanLock == holder = None

(* --------------------------- request handling -------------------------- *)
\* A route matches and calls its handler, which reaches db.lock().await.
Route(t, r) ==
    /\ mainPc = "serving"
    /\ pc[t] = "idle"
    /\ req' = [req EXCEPT ![t] = r]
    /\ pc' = [pc EXCEPT ![t] = "lock"]
    /\ UNCHANGED <<mainPc, file, db, holder, reply, count, last>>

Dispatch(t) == \E r \in Requests : Route(t, r)

\* db.lock().await returns the guard.
Lock(t) ==
    /\ pc[t] = "lock"
    /\ CanLock
    /\ holder' = t
    /\ pc' = [pc EXCEPT ![t] = "body"]
    /\ UNCHANGED <<mainPc, file, db, req, reply, count, last>>

\* A faulty return whose list replies alias the vector: every list reply still
\* held follows the store.
ReturnAliased(t, r) ==
    /\ reply' = [u \in Tasks |->
            IF u = t THEN r
            ELSE IF pc[u] = "done" /\ req[u].op = "list"
                 THEN [status |-> OK, json |-> <<SeqToJson(db')>>]
                 ELSE reply[u]]
    /\ holder' = None
    /\ pc' = [pc EXCEPT ![t] = "done"]
    /\ last' = t

\* A faulty return that keeps the MutexGuard alive.
ReturnLeaky(t, r) ==
    /\ reply' = [reply EXCEPT ![t] = r]
    /\ holder' = holder
    /\ pc' = [pc EXCEPT ![t] = "done"]
    /\ last' = t

\* A handler returns: its reply is recorded and its MutexGuard is dropped.
Return(t, r) ==
    /\ reply' = [reply EXCEPT ![t] = r]
    /\ holder' = None
    /\ pc' = [pc EXCEPT ![t] = "done"]
    /\ last' = t

\* list_customers: clone the vector, reply with it as JSON.
list_customers(t) ==
    /\ pc[t] = "body"
    /\ req[t].op = "list"
    /\ db' = db
    /\ Return(t, JsonReply(SeqToJson(db)))
    /\ UNCHANGED <<mainPc, file, req, count>>

\* A faulty scan that locks the store a second time before it pushes.
create_customer_scan_relock(t) ==
    /\ pc[t] = "body"
    /\ req[t].op = "create"
    /\ db' = db
    /\ IF FirstMatch(db, req[t].arg.guid) # None
       THEN Return(t, [status |-> BAD_REQUEST, json |-> <<>>])
       ELSE /\ pc' = [pc EXCEPT ![t] = "lock"]
            /\ UNCHANGED <<reply, holder, last>>
    /\ UNCHANGED <<mainPc, file, req, count>>

\* create_customer, the for loop: BAD_REQUEST at the first record with the
\* new customer's guid, otherwise on to the push.
create_customer_scan(t) ==
    /\ pc[t] = "body"
    /\ req[t].op = "create"
    /\ db' = db
    /\ IF FirstMatch(db, req[t].arg.guid) # None
       THEN Return(t, StatusReply(BAD_REQUEST))
       ELSE /\ pc' = [pc EXCEPT ![t] = "push"]
            /\ UNCHANGED <<reply, holder, last>>
    /\ UNCHANGED <<mainPc, file, req, count>>

\* A faulty push that inserts the new customer at the front.
create_customer_push_front(t) ==
    /\ pc[t] = "push"
    /\ db' = <<req[t].arg>> \o db
    /\ Return(t, [status |-> CREATED, json |-> <<>>])
    /\ UNCHANGED <<mainPc, file, req, count>>

\* create_customer: customers.push(new_customer); CREATED.
create_customer_push(t) ==
    /\ pc[t] = "push"
    /\ db' = Append(db, req[t].arg)
    /\ Return(t, StatusReply(CREATED))
    /\ UNCHANGED <<mainPc, file, req, count>>

\* A faulty read-one whose loop does not return at the first match: the last
\* record with the guid is the one returned.
get_customer_last(t) ==
    /\ pc[t] = "body"
    /\ req[t].op = "get"
    /\ db' = db
    /\ LET hits == {i \in 1..Len(db) : db[i].guid = req[t].arg}
       IN IF hits # {}
          THEN Return(t, [status |-> OK,
                          json |-> <<ToJson(db[CHOOSE i \in hits : \A j \in hits : j <= i])>>])
          ELSE Return(t, [status |-> NOT_FOUND, json |-> <<>>])
    /\ UNCHANGED <<mainPc, file, req, count>>

\* get_customer: the first record with the guid as JSON, or NOT_FOUND.
get_customer(t) ==
    /\ pc[t] = "body"
    /\ req[t].op = "get"
    /\ db' = db
    /\ LET i == FirstMatch(db, req[t].arg)
       IN IF i # None
          THEN Return(t, JsonReply(ToJson(db[i])))
          ELSE Return(t, StatusReply(NOT_FOUND))
    /\ UNCHANGED <<mainPc, file, req, count>>

\* A faulty update that merges: only first_name is taken from the payload.
update_customer_merge(t) ==
    /\ pc[t] = "body"
    /\ req[t].op = "update"
    /\ LET i == FirstMatch(db, req[t].arg.guid)
       IN IF i # None
          THEN /\ db' = [db EXCEPT ![i].first_name = req[t].arg.first_name]
               /\ Return(t, [status |-> OK, json |-> <<>>])
          ELSE /\ db' = db
               /\ Return(t, [status |-> NOT_FOUND, json |-> <<>>])
    /\ UNCHANGED <<mainPc, file, req, count>>

\* A faulty update whose loop does not return at the first match: every record
\* with the payload's guid is overwritten.
update_customer_all(t) ==
    /\ pc[t] = "body"
    /\ req[t].op = "update"
    /\ LET i == FirstMatch(db, req[t].arg.guid)
       IN IF i # None
          THEN /\ db' = [j \in 1..Len(db) |->
                            IF db[j].guid = req[t].arg.guid THEN req[t].arg ELSE db[j]]
               /\ Return(t, [status |-> OK, json |-> <<>>])
          ELSE /\ db' = db
               /\ Return(t, [status |-> NOT_FOUND, json |-> <<>>])
    /\ UNCHANGED <<mainPc, file, req, count>>

\* update_customer: overwrite the first record with the payload's guid and
\* reply OK, or NOT_FOUND.
update_customer(t) ==
    /\ pc[t] = "body"
    /\ req[t].op = "update"
    /\ LET i == FirstMatch(db, req[t].arg.guid)
       IN IF i # None
          THEN /\ db' = [db EXCEPT ![i] = req[t].arg]
               /\ Return(t, StatusReply(OK))
          ELSE /\ db' = db
               /\ Return(t, StatusReply(NOT_FOUND))
    /\ UNCHANGED <<mainPc, file, req, count>>

\* A faulty count that is taken of an empty vector.
delete_customer_count_zero(t) ==
    /\ pc[t] = "body"
    /\ req[t].op = "delete"
    /\ count' = [count EXCEPT ![t] = Len(<<>>)]
    /\ pc' = [pc EXCEPT ![t] = "retain"]
    /\ UNCHANGED <<mainPc, file, db, holder, req, reply, last>>

\* delete_customer: let customer_count = customers.len();
delete_customer_count(t) ==
    /\ pc[t] = "body"
    /\ req[t].op = "delete"
    /\ count' = [count EXCEPT ![t] = Len(db)]
    /\ pc' = [pc EXCEPT ![t] = "retain"]
    /\ UNCHANGED <<mainPc, file, db, holder, req, reply, last>>

\* delete_customer: retain, then NO_CONTENT if the length changed, else NOT_FOUND.
delete_customer_retain(t) ==
    /\ pc[t] = "retain"
    /\ db' = Retain(db, req[t].arg)
    /\ LET deleted == Len(db') # count[t]
       IN IF deleted
          THEN Return(t, StatusReply(NO_CONTENT))
          ELSE Return(t, StatusReply(NOT_FOUND))
    /\ count' = [count EXCEPT ![t] = None]
    /\ UNCHANGED <<mainPc, file, req>>

\* The reply is sent; the task ends.
Respond(t) ==
    /\ pc[t] = "done"
    /\ pc' = [pc EXCEPT ![t] = "idle"]
    /\ req' = [req EXCEPT ![t] = NoReq]
    /\ reply' = [reply EXCEPT ![t] = NoReply]
    /\ UNCHANGED <<mainPc, file, db, holder, count, last>>

\* A faulty drop: a create dropped while it waits has its record pushed all the same.
CancelStillWrites(t) ==
    /\ pc[t] = "lock"
    /\ pc' = [pc EXCEPT ![t] = "idle"]
    /\ req' = [req EXCEPT ![t] = NoReq]
    /\ db' = IF req[t].op = "create" THEN Append(db, req[t].arg) ELSE db
    /\ UNCHANGED <<mainPc, file, holder, reply, count, last>>

\* The request future is dropped while it waits in db.lock().await.
Cancel(t) ==
    /\ pc[t] = "lock"
    /\ pc' = [pc EXCEPT ![t] = "idle"]
    /\ req' = [req EXCEPT ![t] = NoReq]
    /\ UNCHANGED <<mainPc, file, db, holder, reply, count, last>>

Next ==
    \/ InitDb
    \/ \E t \in Tasks : Dispatch(t)
    \/ \E t \in Tasks : Lock(t)
    \/ \E t \in Tasks : list_customers(t)
    \/ \E t \in Tasks : create_customer_scan(t)
    \/ \E t \in Tasks : create_customer_push(t)
    \/ \E t \in Tasks : get_customer(t)
    \/ \E t \in Tasks : update_customer(t)
    \/ \E t \in Tasks : delete_customer_count(t)
    \/ \E t \in Tasks : delete_customer_retain(t)
    \/ \E t \in Tasks : Respond(t)
    \/ \E t \in Tasks : Cancel(t)

Spec == Init /\ [][Next]_vars

(* ------------------------------ scheduling ----------------------------- *)
\* The steps a handler takes between acquiring the guard and returning.
HandlerStep(t) ==
    \/ list_customers(t)
    \/ create_customer_scan(t)
    \/ create_customer_push(t)
    \/ get_customer(t)
    \/ update_customer(t)
    \/ delete_customer_count(t)
    \/ delete_customer_retain(t)

\* main() runs init_db; a handler that owns the guard has no await left and
\* runs to its return; tokio's Mutex hands the lock to its waiters in FIFO
\* order, so a task that keeps waiting is eventually granted it.
Fairness ==
    /\ WF_vars(InitDb)
    /\ \A t \in Tasks : WF_vars(HandlerStep(t))
    /\ \A t \in Tasks : SF_vars(Lock(t))

(* ------------- concurrent creates with pairwise distinct guids --------- *)
\* The snapshot files from which the store starts empty.
EmptyStartFiles == {f \in SnapshotFiles : ~InitPanics(f) /\ init_db(f) = <<>>}

InitCreates == Init /\ file \in EmptyStartFiles

\* POST /customers with a guid no other request of the run carries.
DispatchCreate(t) ==
    \E c \in Payloads :
        /\ \A u \in Tasks \ {t} : req[u].op = "create" => req[u].arg.guid # c.guid
        /\ Route(t, [op |-> "create", arg |-> c])

NextCreates ==
    \/ InitDb
    \/ \E t \in Tasks : DispatchCreate(t)
    \/ \E t \in Tasks : Lock(t)
    \/ \E t \in Tasks : create_customer_scan(t)
    \/ \E t \in Tasks : create_customer_push(t)

SpecCreates == InitCreates /\ [][NextCreates]_vars

\* The service started without seeded records, under the scheduling above.
SpecFair == InitCreates /\ [][Next]_vars /\ Fairness

(* ----------------- concurrent creates that share one guid -------------- *)
\* POST /customers with the guid the other requests of the run carry; the
\* first request of the run carries a guid the store does not hold.
DispatchRace(t) ==
    \E c \in Payloads :
        /\ \A u \in Tasks \ {t} : req[u].op = "create" => req[u].arg.guid = c.guid
        /\ (\A u \in Tasks : req[u].op # "create") => FirstMatch(db, c.guid) = None
        /\ Route(t, [op |-> "create", arg |-> c])

NextRace ==
    \/ InitDb
    \/ \E t \in Tasks : DispatchRace(t)
    \/ \E t \in Tasks : Lock(t)
    \/ \E t \in Tasks : create_customer_scan(t)
    \/ \E t \in Tasks : create_customer_push(t)

SpecRace == Init /\ [][NextRace]_vars

(* ======================= properties of the service ===================== *)
\* The pc values at which a task owns the MutexGuard.
Holding == {"body", "push", "retain"}

HasGuid(s, g) == \E i \in 1..Len(s) : s[i].guid = g

\* The JSON object o carries customer c in all five fields.
SameFields(o, c) ==
    /\ DOMAIN o = FieldSet
    /\ o["guid"] = c.guid
    /\ o["first_name"] = c.first_name
    /\ o["last_name"] = c.last_name
    /\ o["email"] = c.email
    /\ o["address"] = c.address

\* Task t's handler for operation op returns in this step.
Returns(t, op) == pc[t] \in Holding /\ req[t].op = op /\ pc'[t] = "done"

\* Task u's handler for operation op was the last to return, with this status,
\* and u still holds its request and reply.
LastWas(u, op, status) ==
    /\ last = u
    /\ pc[u] = "done"
    /\ req[u].op = op
    /\ reply[u].status = status

(* ---- C1 ---- *)
\* C1: at every point no two records in the store share a guid, for every
\* store init_db can produce.
UniqueGuids ==
    \A i, j \in 1..Len(db) : i # j => db[i].guid # db[j].guid

(* ---- C2 ---- *)
MutexInv ==
    /\ \A t, u \in Tasks : (t # u /\ pc[t] \in Holding) => pc[u] \notin Holding
    /\ \A t \in Tasks : pc[t] \in Holding <=> holder = t

\* A step of a serving process that changes the store or hands a task a reply
\* is taken by the one task that owns the guard.
OnlyHolderActs ==
    (mainPc = "serving" /\ (db' # db \/ \E t \in Tasks : reply'[t] \notin {reply[t], NoReply}))
    => /\ holder \in Tasks
       /\ pc[holder] \in Holding
       /\ pc'[holder] = "done"
       /\ \A u \in Tasks \ {holder} : pc[u] \notin Holding /\ pc'[u] = pc[u]

\* C2: at most one handler invocation owns the store's guard at any moment,
\* list and read-one included, and no task without the guard reads or writes
\* the store.
MutualExclusion == []MutexInv /\ [][OnlyHolderActs]_vars

\* A list owns the guard while a writer waits in lock().
ListHoldsWriterWaits ==
    \E t, u \in Tasks :
        /\ holder = t /\ pc[t] = "body" /\ req[t].op = "list"
        /\ pc[u] = "lock" /\ req[u].op \in {"create", "update", "delete"}

(* ---- C3 ---- *)
Quiescent == \A t \in Tasks : pc[t] \in {"idle", "done"}

Finished == {t \in Tasks : pc[t] = "done"}

\* C3: from an empty store, once N concurrent creates with pairwise distinct
\* guids have all returned, each has signalled CREATED and the store holds
\* exactly N records, one per guid, each equal to its payload.
SerializedCreates ==
    (mainPc = "serving" /\ Quiescent) =>
        /\ \A t \in Finished : reply[t] = StatusReply(CREATED)
        /\ Len(db) = Cardinality(Finished)
        /\ \A t \in Finished :
              /\ Cardinality({i \in 1..Len(db) : db[i].guid = req[t].arg.guid}) = 1
              /\ \E i \in 1..Len(db) : db[i] = req[t].arg

\* Every task has created its record.
AllCreatesDone ==
    /\ \A t \in Tasks : pc[t] = "done" /\ req[t].op = "create"
    /\ Len(db) = NumTasks
    /\ NumTasks > 1

(* ---- C4 ---- *)
\* C4: a create whose guid is already in the store signals BAD_REQUEST and
\* leaves the store as it was, every time it is repeated.
CreateRejection ==
    [][\A t \in Tasks :
          (/\ pc[t] = "body"
           /\ req[t].op = "create"
           /\ HasGuid(db, req[t].arg.guid)
           /\ pc'[t] # pc[t])
          => /\ pc'[t] = "done"
             /\ reply'[t] = StatusReply(BAD_REQUEST)
             /\ db' = db]_vars

\* The same create was rejected twice and the record in the store is the one
\* the store started with.
CreateRejectedTwice ==
    \E t, u \in Tasks :
        /\ t # u
        /\ pc[t] = "done" /\ pc[u] = "done"
        /\ req[t].op = "create" /\ req[u] = req[t]
        /\ reply[t].status = BAD_REQUEST /\ reply[u].status = BAD_REQUEST
        /\ Len(db) = 1
        /\ db[1].guid = req[t].arg.guid
        /\ db[1] # req[t].arg

(* ---- C5 ---- *)
\* C5: a create of a record whose guid is not in the store signals CREATED,
\* and a read-one of that guid that runs next returns the record, equal in all
\* five fields.
RoundTrip ==
    [][\A t \in Tasks :
          /\ (/\ pc[t] = "body"
              /\ req[t].op = "create"
              /\ ~HasGuid(db, req[t].arg.guid)
              /\ pc'[t] # pc[t])
             => pc'[t] = "push"
          /\ (pc[t] = "push" /\ pc'[t] # pc[t])
             => (pc'[t] = "done" /\ reply'[t] = StatusReply(CREATED))
          /\ \A u \in Tasks :
                (/\ LastWas(u, "create", CREATED)
                 /\ Returns(t, "get")
                 /\ req[t].arg = req[u].arg.guid)
                => /\ reply'[t].status = OK
                   /\ Len(reply'[t].json) = 1
                   /\ SameFields(reply'[t].json[1], req[u].arg)]_vars

\* A record was created behind another record and the read-one that ran next
\* returned it.
CreatedThenRead ==
    \E t, u \in Tasks :
        /\ last = t
        /\ pc[u] = "done" /\ req[u].op = "create" /\ reply[u].status = CREATED
        /\ pc[t] = "done" /\ req[t].op = "get" /\ req[t].arg = req[u].arg.guid
        /\ reply[t].status = OK
        /\ SameFields(reply[t].json[1], req[u].arg)
        /\ Len(db) = 2
        /\ db[2] = req[u].arg

(* ---- C6 ---- *)
\* C6: an update whose guid is in the store signals OK, and a read-one of that
\* guid that runs next returns exactly the payload.
UpdateReplace ==
    [][\A t \in Tasks :
          /\ (/\ pc[t] = "body"
              /\ req[t].op = "update"
              /\ HasGuid(db, req[t].arg.guid)
              /\ pc'[t] # pc[t])
             => (pc'[t] = "done" /\ reply'[t] = StatusReply(OK))
          /\ \A u \in Tasks :
                (/\ LastWas(u, "update", OK)
                 /\ Returns(t, "get")
                 /\ req[t].arg = req[u].arg.guid)
                => /\ reply'[t].status = OK
                   /\ Len(reply'[t].json) = 1
                   /\ SameFields(reply'[t].json[1], req[u].arg)]_vars

\* The store started with one record, an update replaced it by a payload that
\* differs in the other fields, and the read-one that ran next returned the payload.
UpdatedThenRead ==
    \E t, u \in Tasks :
        /\ last = t
        /\ pc[u] = "done" /\ req[u].op = "update" /\ reply[u].status = OK
        /\ pc[t] = "done" /\ req[t].op = "get" /\ req[t].arg = req[u].arg.guid
        /\ reply[t].status = OK
        /\ SameFields(reply[t].json[1], req[u].arg)
        /\ file.kind = "array" /\ Len(file.content) = 1
        /\ file.content[1]["guid"] = req[u].arg.guid
        /\ file.content[1]["first_name"] # req[u].arg.first_name
        /\ db = <<req[u].arg>>

(* ---- C7 ---- *)
\* The records of s whose guid is not g, in their order in s.
Others(s, g) ==
    LET Keep(c) == c.guid # g
    IN SelectSeq(s, Keep)

\* C7: a delete of a guid the store holds signals NO_CONTENT, removes every
\* record with that guid and keeps the others in order, and a read-one of the
\* guid that runs next signals NOT_FOUND.
DeleteThenRead ==
    [][\A t \in Tasks :
          /\ (Returns(t, "delete") /\ HasGuid(db, req[t].arg))
             => /\ reply'[t] = StatusReply(NO_CONTENT)
                /\ ~HasGuid(db', req[t].arg)
                /\ db' = Others(db, req[t].arg)
          /\ \A u \in Tasks :
                (/\ LastWas(u, "delete", NO_CONTENT)
                 /\ Returns(t, "get")
                 /\ req[t].arg = req[u].arg)
                => reply'[t] = StatusReply(NOT_FOUND)]_vars

\* The store started with two records of one guid, a delete removed both and
\* the read-one that ran next found none.
DeletedAllThenRead ==
    \E t, u \in Tasks :
        /\ last = t
        /\ pc[u] = "done" /\ req[u].op = "delete" /\ reply[u].status = NO_CONTENT
        /\ pc[t] = "done" /\ req[t].op = "get" /\ req[t].arg = req[u].arg
        /\ reply[t].status = NOT_FOUND
        /\ file.kind = "array" /\ Len(file.content) = 2
        /\ file.content[1]["guid"] = req[u].arg
        /\ file.content[2]["guid"] = req[u].arg
        /\ db = <<>>

(* ---- C8 ---- *)
\* C8: a delete of a guid the store does not hold signals NOT_FOUND and leaves
\* the store unchanged.
DeleteMissing ==
    [][\A t \in Tasks :
          (Returns(t, "delete") /\ ~HasGuid(db, req[t].arg))
          => (reply'[t] = StatusReply(NOT_FOUND) /\ db' = db)]_vars

\* A delete of a missing guid was answered NOT_FOUND by a store holding a record.
DeleteMissedNonEmpty ==
    \E t \in Tasks :
        /\ pc[t] = "done" /\ req[t].op = "delete"
        /\ reply[t].status = NOT_FOUND
        /\ last = t
        /\ db # <<>>

(* ---- C9 ---- *)
\* C9: a list reply holds the store's records as they were while the list owned
\* the guard, and no later step changes a reply a task holds.
ListSnapshot ==
    [][\A t \in Tasks :
          /\ Returns(t, "list")
             => /\ reply'[t].status = OK
                /\ Len(reply'[t].json) = 1
                /\ Len(reply'[t].json[1]) = Len(db)
                /\ \A i \in 1..Len(db) : SameFields(reply'[t].json[1][i], db[i])
          /\ (pc[t] = "done" /\ pc'[t] = "done") => reply'[t] = reply[t]]_vars

\* A task holds a list reply of a store that has changed since.
ListReplyOutlived ==
    \E t \in Tasks :
        /\ pc[t] = "done" /\ req[t].op = "list"
        /\ Len(reply[t].json[1]) > 0
        /\ Len(reply[t].json[1]) # Len(db)
        /\ last # t

(* ---- C10 ---- *)
\* The snapshot file exists.
FilePresent(f) == f.kind # "absent"

\* C10: a present, parseable snapshot starts the store with exactly its
\* sequence; a present, unparseable one ends the process before it serves; the
\* store starts empty for want of a snapshot only if the file is absent.
StartupInitialization ==
    [][mainPc = "start" =>
          /\ Parseable(file)
             => /\ mainPc' = "serving"
                /\ Len(db') = Len(file.content)
                /\ \A i \in 1..Len(db') : SameFields(file.content[i], db'[i])
          /\ (FilePresent(file) /\ ~Parseable(file)) => mainPc' = "panicked"
          /\ (mainPc' = "serving" /\ ~Parseable(file)) => ~FilePresent(file)]_vars

(* ---- C11 ---- *)
\* C11: the guard is dropped on every exit path, so whenever no handler is
\* between lock() and its return the mutex is free and a waiting task can take it.
NoLockLeak ==
    (\A t \in Tasks : pc[t] \notin Holding)
    => /\ holder = None
       /\ \A t \in Tasks : pc[t] = "lock" => ENABLED Lock(t)

\* A create returned early with BAD_REQUEST, the other task gave up waiting,
\* and the mutex is free.
EarlyReturnLeftFree ==
    \E t, u \in Tasks :
        /\ t # u
        /\ pc[t] = "done" /\ req[t].op = "create" /\ reply[t].status = BAD_REQUEST
        /\ last = t
        /\ pc[u] = "idle" /\ reply[u] = NoReply
        /\ holder = None

(* ---- C12 ---- *)
\* The outcome reply r is one that operation q lists, and it is the success
\* outcome exactly when q's precondition holds of the vector s.
ListedOutcome(q, r, s) ==
    CASE q.op = "list" ->
            r.status = OK /\ Len(r.json) = 1
      [] q.op = "create" ->
            /\ r.json = <<>>
            /\ r.status \in {CREATED, BAD_REQUEST}
            /\ r.status = CREATED <=> ~HasGuid(s, q.arg.guid)
      [] q.op = "get" ->
            /\ r.status \in {OK, NOT_FOUND}
            /\ r.status = OK <=> HasGuid(s, q.arg)
            /\ Len(r.json) = IF r.status = OK THEN 1 ELSE 0
      [] q.op = "update" ->
            /\ r.json = <<>>
            /\ r.status \in {OK, NOT_FOUND}
            /\ r.status = OK <=> HasGuid(s, q.arg.guid)
      [] q.op = "delete" ->
            /\ r.json = <<>>
            /\ r.status \in {NO_CONTENT, NOT_FOUND}
            /\ r.status = NO_CONTENT <=> HasGuid(s, q.arg)

\* A task that owns the guard moves only towards its return.
TowardsReturn(t) ==
    /\ pc[t] = "body" => pc'[t] \in {"body", "push", "retain", "done"}
    /\ pc[t] \in {"push", "retain"} => pc'[t] \in {pc[t], "done"}

\* C12: every handler invocation ends, with one of the outcomes its operation
\* lists, the success outcome exactly when the guid precondition held under
\* the guard.
Totality ==
    /\ \A t \in Tasks : (pc[t] = "lock") ~> (pc[t] \in {"done", "idle"})
    /\ \A t \in Tasks : (pc[t] \in Holding) ~> (pc[t] = "done")
    /\ [][\A t \in Tasks :
             /\ TowardsReturn(t)
             /\ (pc[t] \in Holding /\ pc'[t] = "done")
                => ListedOutcome(req[t], reply'[t], db)]_vars

\* Both tasks have ended, one with a failure outcome and one with a success.
BothOutcomes ==
    \E t, u \in Tasks :
        /\ pc[t] = "done" /\ req[t].op = "delete" /\ reply[t].status = NOT_FOUND
        /\ pc[u] = "done" /\ req[u].op = "create" /\ reply[u].status = CREATED
        /\ last = u

(* ---- C13 ---- *)
\* The records of s whose guid is g, in their order in s.
Matching(s, g) ==
    LET Is(c) == c.guid = g
    IN SelectSeq(s, Is)

\* Position of the first record of s with guid g (s holds one).
FirstPosition(s, g) ==
    CHOOSE i \in 1..Len(s) : s[i].guid = g /\ Len(Matching(SubSeq(s, 1, i), g)) = 1

\* One operation applied atomically to the vector s: the vector it leaves and
\* the reply it gives.
Atomic(q, s) ==
    CASE q.op = "list" ->
            [db |-> s,
             reply |-> [status |-> OK, json |-> <<[i \in 1..Len(s) |-> ToJson(s[i])]>>]]
      [] q.op = "create" ->
            IF HasGuid(s, q.arg.guid)
            THEN [db |-> s, reply |-> [status |-> BAD_REQUEST, json |-> <<>>]]
            ELSE [db |-> s \o <<q.arg>>, reply |-> [status |-> CREATED, json |-> <<>>]]
      [] q.op = "get" ->
            IF HasGuid(s, q.arg)
            THEN [db |-> s,
                  reply |-> [status |-> OK, json |-> <<ToJson(Head(Matching(s, q.arg)))>>]]
            ELSE [db |-> s, reply |-> [status |-> NOT_FOUND, json |-> <<>>]]
      [] q.op = "update" ->
            IF HasGuid(s, q.arg.guid)
            THEN [db |-> [i \in 1..Len(s) |->
                            IF i = FirstPosition(s, q.arg.guid) THEN q.arg ELSE s[i]],
                  reply |-> [status |-> OK, json |-> <<>>]]
            ELSE [db |-> s, reply |-> [status |-> NOT_FOUND, json |-> <<>>]]
      [] q.op = "delete" ->
            IF HasGuid(s, q.arg)
            THEN [db |-> Others(s, q.arg), reply |-> [status |-> NO_CONTENT, json |-> <<>>]]
            ELSE [db |-> s, reply |-> [status |-> NOT_FOUND, json |-> <<>>]]

\* Some handler returns in this step.
SomeReturn == \E t \in Tasks : pc[t] \in Holding /\ pc'[t] = "done"

\* C13: critical sections do not overlap, and every execution is a sequential
\* one: each operation takes effect as a whole in the step in which its handler
\* returns, on the store the previous return left, and no other step of the
\* serving process changes the store.
Serialization ==
    [][/\ \A t \in Tasks :
             (pc[t] \in Holding /\ pc'[t] = "done")
             => /\ db' = Atomic(req[t], db).db
                /\ reply'[t] = Atomic(req[t], db).reply
                /\ \A u \in Tasks \ {t} : pc[u] \notin Holding /\ reply'[u] = reply[u]
       /\ (mainPc = "serving" /\ ~SomeReturn) => db' = db]_vars

\* A create and a delete of the same guid ran one after the other from an
\* empty store while both requests were open.
CreateThenDeleteSerial ==
    \E t, u \in Tasks :
        /\ pc[t] = "done" /\ req[t].op = "create" /\ reply[t].status = CREATED
        /\ pc[u] = "done" /\ req[u].op = "delete" /\ req[u].arg = req[t].arg.guid
        /\ reply[u].status = NO_CONTENT
        /\ last = u
        /\ file.kind = "absent"
        /\ db = <<>>

\* The statement of C13 as written: while one operation owns the guard no
\* other operation has begun to acquire it.
CompletesBeforeOtherBegins ==
    \A t, u \in Tasks : (t # u /\ pc[t] \in Holding) => pc[u] # "lock"

SerializationAsWritten == []CompletesBeforeOtherBegins /\ Serialization

(* ---- C14 ---- *)
\* The guids of the records of s, in order.
GuidsOf(s) == [i \in 1..Len(s) |-> s[i].guid]

\* C14: an update that finds its guid replaces the first record with that guid,
\* in place, and changes nothing else; one that does not find it signals
\* NOT_FOUND and leaves the store unchanged.
UpdateInPlace ==
    [][\A t \in Tasks :
          Returns(t, "update") =>
             IF HasGuid(db, req[t].arg.guid)
             THEN /\ reply'[t] = StatusReply(OK)
                  /\ Len(db') = Len(db)
                  /\ GuidsOf(db') = GuidsOf(db)
                  /\ \E i \in 1..Len(db) :
                        /\ db[i].guid = req[t].arg.guid
                        /\ \A j \in 1..(i - 1) : db[j].guid # req[t].arg.guid
                        /\ db'[i] = req[t].arg
                        /\ \A j \in 1..Len(db) : j # i => db'[j] = db[j]
             ELSE /\ reply'[t] = StatusReply(NOT_FOUND)
                  /\ db' = db]_vars

\* The store started with two records of one guid; an update replaced the
\* first and left the second.
UpdatedFirstOfTwo ==
    \E t \in Tasks :
        /\ pc[t] = "done" /\ req[t].op = "update" /\ reply[t].status = OK
        /\ last = t
        /\ Len(db) = 2
        /\ db[1] = req[t].arg
        /\ db[2].guid = req[t].arg.guid
        /\ db[2] # req[t].arg
        /\ file.kind = "array" /\ Len(file.content) = 2
        /\ file.content[1]["first_name"] # req[t].arg.first_name

(* ---- C15 ---- *)
\* s2 holds the records of s1 that survive, in their order in s1: positions of
\* s2 map to increasing positions of s1 holding the same guid.
RECURSIVE KeepsOrder(_, _)
KeepsOrder(s1, s2) ==
    IF s2 = <<>> THEN TRUE
    ELSE IF s1 = <<>> THEN FALSE
    ELSE IF Head(s1).guid = Head(s2).guid /\ KeepsOrder(Tail(s1), Tail(s2)) THEN TRUE
    ELSE KeepsOrder(Tail(s1), s2)

\* C15: a successful create appends its record at the end and leaves every
\* existing record at its position; list returns the records in stored order;
\* no step of the serving process reorders the records that survive it.
InsertionOrder ==
    [][\A t \in Tasks :
          /\ (pc[t] = "push" /\ pc'[t] = "done")
             => /\ Len(db') = Len(db) + 1
                /\ \A i \in 1..Len(db) : db'[i] = db[i]
                /\ db'[Len(db')] = req[t].arg
          /\ Returns(t, "list")
             => /\ Len(reply'[t].json[1]) = Len(db)
                /\ \A i \in 1..Len(db) : reply'[t].json[1][i] = ToJson(db[i])
          /\ (mainPc = "serving" /\ pc[t] \in Holding /\ pc'[t] # pc[t])
             => IF pc[t] = "push"
                THEN KeepsOrder(db', db) /\ Len(db') = Len(db) + 1
                ELSE KeepsOrder(db, db')]_vars

\* A record was created behind a seeded one and a list returned both, the
\* seeded one first.
ListedInInsertionOrder ==
    \E t, u \in Tasks :
        /\ pc[u] = "done" /\ req[u].op = "create" /\ reply[u].status = CREATED
        /\ pc[t] = "done" /\ req[t].op = "list" /\ last = t
        /\ file.kind = "array" /\ Len(file.content) = 1
        /\ Len(db) = 2
        /\ file.content[1] = ToJson(db[1])
        /\ db[2] = req[u].arg
        /\ Len(reply[t].json[1]) = 2
        /\ reply[t].json[1][1] = file.content[1]
        /\ reply[t].json[1][2] = ToJson(req[u].arg)

(* ---- C16 ---- *)
Writes == {"create", "update", "delete"}

\* C16: a request dropped while it waits for the guard leaves the store and
\* the mutex as they were, and a write that owns the guard changes the store
\* only in the step that applies it completely, so the store is at every point
\* the one before the write or the one after it.
CancelledWriteAtomic ==
    [][\A t \in Tasks :
          /\ (pc[t] = "lock" /\ pc'[t] = "idle")
             => (db' = db /\ holder' = holder /\ reply' = reply)
          /\ (req[t].op \in Writes /\ pc[t] \in Holding /\ pc'[t] # pc[t])
             => \/ db' = db
                \/ pc'[t] = "done" /\ db' = Atomic(req[t], db).db]_vars

\* A delete can be dropped while it waits and a create owns the guard between
\* its scan and its push.
WriteWaitsBehindWrite ==
    \E t, u \in Tasks :
        /\ pc[t] = "lock" /\ req[t].op = "delete"
        /\ ENABLED Cancel(t)
        /\ pc[u] = "push" /\ holder = u
        /\ db # <<>>

(* ---- C17 ---- *)
\* A task takes the guard only from lock(), once per invocation, and a task
\* that owns the guard never goes back to waiting.
SingleAcquisition ==
    \A t \in Tasks :
        /\ (holder' = t /\ holder # t) => (pc[t] = "lock" /\ pc'[t] = "body")
        /\ pc'[t] = "lock" => pc[t] \in {"idle", "lock"}
        /\ pc'[t] = "body" => pc[t] \in {"lock", "body"}

\* A task that owns the guard can take its next step, and while tasks wait and
\* none owns the guard each of them can take it.
NeverStuck ==
    /\ \A t \in Tasks : pc[t] \in Holding => ENABLED HandlerStep(t)
    /\ (\A t \in Tasks : pc[t] \notin Holding)
       => \A t \in Tasks : pc[t] = "lock" => ENABLED Lock(t)

\* C17: each invocation acquires the guard exactly once, waits only in lock(),
\* never waits while it owns the guard, and so concurrent handlers never deadlock.
NoDeadlock == []NeverStuck /\ [][SingleAcquisition]_vars

\* One handler is between its count and its retain while the other waits.
HolderRunsWaiterWaits ==
    \E t, u \in Tasks :
        /\ pc[t] = "retain" /\ holder = t
        /\ pc[u] = "lock"
        /\ ENABLED HandlerStep(t)
        /\ ~ENABLED Lock(u)

(* ---- C19 ---- *)
Winners == {t \in Finished : reply[t].status = CREATED}

\* C19: once concurrent creates of one guid, started on a store without it,
\* have all returned, exactly one has signalled CREATED, the others
\* BAD_REQUEST, and the store holds one record of the guid: the winner's payload.
RacingCreates ==
    (mainPc = "serving" /\ Quiescent /\ Finished # {}) =>
        /\ Cardinality(Winners) = 1
        /\ \A t \in Finished \ Winners : reply[t] = StatusReply(BAD_REQUEST)
        /\ \A t \in Winners :
              /\ Cardinality({i \in 1..Len(db) : db[i].guid = req[t].arg.guid}) = 1
              /\ \E i \in 1..Len(db) : db[i] = req[t].arg

\* Every task raced with its own payload for the guid; one won, behind a
\* seeded record of another guid.
RaceDecided ==
    /\ \A t \in Tasks : pc[t] = "done" /\ req[t].op = "create"
    /\ \E t, u \in Tasks : req[t].arg # req[u].arg /\ req[t].arg.guid = req[u].arg.guid
    /\ \E t \in Tasks : reply[t].status = BAD_REQUEST
    /\ Len(db) = 2

(* ---- C20 ---- *)
\* C20: list and read-one leave the store as it is, whatever they return, and
\* read-one returns the first record, in sequence order, with the guid.
ReadsHaveNoEffect ==
    [][\A t \in Tasks :
          /\ (pc[t] \in Holding /\ req[t].op \in {"list", "get"} /\ pc'[t] # pc[t])
             => db' = db
          /\ Returns(t, "get")
             => IF HasGuid(db, req[t].arg)
                THEN /\ reply'[t].status = OK
                     /\ Len(reply'[t].json) = 1
                     /\ \E i \in 1..Len(db) :
                           /\ db[i].guid = req[t].arg
                           /\ \A j \in 1..(i - 1) : db[j].guid # req[t].arg
                           /\ SameFields(reply'[t].json[1], db[i])
                ELSE reply'[t] = StatusReply(NOT_FOUND)]_vars

\* The store holds two different records of one guid and a read-one returned
\* the first.
ReadFirstOfTwo ==
    \E t \in Tasks :
        /\ pc[t] = "done" /\ req[t].op = "get" /\ reply[t].status = OK
        /\ last = t
        /\ Len(db) = 2
        /\ db[1].guid = req[t].arg /\ db[2].guid = req[t].arg
        /\ db[1] # db[2]
        /\ SameFields(reply[t].json[1], db[1])

=============================================================================
